---- MODULE Spec2Model ----
(***************************************************************************)
(* State machine of the Ensy MQTT client                                   *)
(* (custom_components/ensy_unofficial/client.py) together with the binary  *)
(* sensors that observe it (binary_sensor.py) and the entry set-up that    *)
(* wires them (__init__.py).                                               *)
(*                                                                         *)
(* Two execution contexts are modelled.  The transport's background thread *)
(* runs the paho callbacks (on_connect, on_message, on_disconnect,         *)
(* on_connect_fail); they only enqueue closures on the event loop with     *)
(* call_soon_threadsafe.  The event loop runs the queued closures in FIFO  *)
(* order, and also runs the command operations.                            *)
(*                                                                         *)
(* Python str values are TLA+ strings, bytes values are sequences of byte  *)
(* values, Optional[T] values are <<>> (None) or <<v>>.                    *)
(***************************************************************************)
EXTENDS Integers, Sequences, FiniteSets, TLC

(***************************************************************************)
(* Bounds of the model.                                                    *)
(***************************************************************************)
\* Closures that may wait on the event loop at once.
MaxQueue == 2
\* Message callbacks the transport delivers in one behaviour.
MaxMessages == 2
\* How far beyond [MIN_TEMPERATURE, MAX_TEMPERATURE] the commanded values go.
TempMargin == 1

(***************************************************************************)
(* Program constants.                                                      *)
(***************************************************************************)
MIN_TEMPERATURE == 15
MAX_TEMPERATURE == 26

LOW == 1
MEDIUM == 2
HIGH == 3
FanMode == {LOW, MEDIUM, HIGH}

\* StrEnum with auto(): each member's value is its lower-cased name.
HOME == "home"
AWAY == "away"
BOOST == "boost"
PresetMode == {HOME, AWAY, BOOST}

\* Defaults of publish(): qos=1, retain=True.
DefaultQos == 1
DefaultRetain == TRUE

(***************************************************************************)
(* Optional values.                                                        *)
(***************************************************************************)
None == <<>>
Some(v) == <<v>>
IsNone(o) == o = <<>>
Get(o) == o[1]

(***************************************************************************)
(* Strings: characters, str(int), int(str), bytes.decode().                *)
(***************************************************************************)
Char(s, i) == SubSeq(s, i, i)

Digits == <<"0", "1", "2", "3", "4", "5", "6", "7", "8", "9">>
DigitSet == {Digits[i] : i \in 1..10}
DigitVal(c) == (CHOOSE i \in 1..10 : Digits[i] = c) - 1

StartsWith(s, p) == Len(s) >= Len(p) /\ SubSeq(s, 1, Len(p)) = p

\* str(n) for an int n: a minus sign for a negative, then the decimal digits.
RECURSIVE NatStr(_)
NatStr(n) == IF n < 10 THEN Digits[n + 1]
             ELSE NatStr(n \div 10) \o Digits[(n % 10) + 1]
Str(n) == IF n < 0 THEN "-" \o NatStr(0 - n) ELSE NatStr(n)

\* str.strip() over the whitespace of the alphabet used here (the space).
RECURSIVE LStrip(_)
LStrip(s) == IF Len(s) > 0 /\ Char(s, 1) = " " THEN LStrip(SubSeq(s, 2, Len(s))) ELSE s
RECURSIVE RStrip(_)
RStrip(s) == IF Len(s) > 0 /\ Char(s, Len(s)) = " " THEN RStrip(SubSeq(s, 1, Len(s) - 1)) ELSE s
Strip(s) == RStrip(LStrip(s))

\* The unsigned part of an integer literal: digits, with single underscores
\* allowed between two digits.
DigitGroupOk(d) ==
    /\ Len(d) > 0
    /\ \A i \in 1..Len(d) :
        \/ Char(d, i) \in DigitSet
        \/ /\ Char(d, i) = "_"
           /\ i > 1 /\ i < Len(d)
           /\ Char(d, i - 1) \in DigitSet
           /\ Char(d, i + 1) \in DigitSet
RECURSIVE DigitGroupVal(_, _)
DigitGroupVal(d, acc) ==
    IF Len(d) = 0 THEN acc
    ELSE IF Char(d, 1) = "_" THEN DigitGroupVal(SubSeq(d, 2, Len(d)), acc)
    ELSE DigitGroupVal(SubSeq(d, 2, Len(d)), acc * 10 + DigitVal(Char(d, 1)))

HasSign(t) == Len(t) > 0 /\ Char(t, 1) \in {"+", "-"}
Unsigned(t) == IF HasSign(t) THEN SubSeq(t, 2, Len(t)) ELSE t

\* int(s) for a str s: whether it parses (otherwise ValueError), and its value.
IntParses(s) == DigitGroupOk(Unsigned(Strip(s)))
IntOf(s) ==
    LET t == Strip(s)
        m == DigitGroupVal(Unsigned(t), 0)
    IN  IF HasSign(t) /\ Char(t, 1) = "-" THEN 0 - m ELSE m

\* The ASCII characters the model's payloads are written in, with their codes.
AsciiChars == " +-.0123456789_abcdefghijklmnopqrstuvwxyz"
AsciiCodes == <<32, 43, 45, 46, 48, 49, 50, 51, 52, 53, 54, 55, 56, 57, 95,
                97, 98, 99, 100, 101, 102, 103, 104, 105, 106, 107, 108, 109,
                110, 111, 112, 113, 114, 115, 116, 117, 118, 119, 120, 121, 122>>
Ord(c) == AsciiCodes[CHOOSE i \in 1..Len(AsciiChars) : Char(AsciiChars, i) = c]
Chr(b) == Char(AsciiChars, CHOOSE i \in 1..Len(AsciiCodes) : AsciiCodes[i] = b)

\* str.encode("utf8") of an ASCII string.
RECURSIVE Encode(_)
Encode(s) == IF Len(s) = 0 THEN <<>>
             ELSE <<Ord(Char(s, 1))>> \o Encode(SubSeq(s, 2, Len(s)))

\* bytes.decode(): the bytes 0xFE and 0xFF occur in no UTF-8 sequence, every
\* byte below 0x80 is the character with that code.
InvalidByte(b) == b >= 254
Decodes(bs) == \A i \in 1..Len(bs) : ~InvalidByte(bs[i])
RECURSIVE Decode(_)
Decode(bs) == IF Len(bs) = 0 THEN ""
              ELSE Chr(bs[1]) \o Decode(SubSeq(bs, 2, Len(bs)))

(***************************************************************************)
(* Identity and topics (EnsyClient.__init__).                              *)
(***************************************************************************)
\* The hardware address the client is constructed with.
MacAddressInput == "00:1A:2b:00:00:01"

UpperChars == "ABCDEFGHIJKLMNOPQRSTUVWXYZ"
LowerChars == "abcdefghijklmnopqrstuvwxyz"
LowerChar(c) ==
    IF \E i \in 1..Len(UpperChars) : Char(UpperChars, i) = c
    THEN Char(LowerChars, CHOOSE i \in 1..Len(UpperChars) : Char(UpperChars, i) = c)
    ELSE c
\* mac_address.replace(":", "").lower()
RECURSIVE Normalize(_)
Normalize(s) ==
    IF Len(s) = 0 THEN ""
    ELSE IF Char(s, 1) = ":" THEN Normalize(SubSeq(s, 2, Len(s)))
    ELSE LowerChar(Char(s, 1)) \o Normalize(SubSeq(s, 2, Len(s)))

mac_address == Normalize(MacAddressInput)
state_topic_prefix == "units/" \o mac_address \o "/unit/"
apply_state_topic_prefix == "units/" \o mac_address \o "/app/"

(***************************************************************************)
(* Device State (EnsyState) and its freshly constructed value.             *)
(***************************************************************************)
Fields == {"is_heating", "is_online", "fan_mode", "preset_mode",
           "temperature_exhaust", "temperature_extract", "temperature_heater",
           "temperature_outside", "temperature_supply", "temperature_target"}

EnsyState == [is_heating |-> None,
              is_online |-> FALSE,
              fan_mode |-> None,
              preset_mode |-> None,
              temperature_exhaust |-> None,
              temperature_extract |-> None,
              temperature_heater |-> None,
              temperature_outside |-> None,
              temperature_supply |-> None,
              temperature_target |-> None]

(***************************************************************************)
(* Inputs.                                                                 *)
(***************************************************************************)
\* The keys _propagate matches, and one it does not.
HandledKeys == {"temperature", "status", "fan", "party", "absent", "textr",
                "texauh", "tsupl", "tout", "overheating", "he"}
NumericKeys == {"temperature", "textr", "texauh", "tsupl", "tout", "overheating"}
UnknownKeys == {"rm"}

\* Topics the transport may hand to on_message: every key under this device's
\* state prefix, a topic outside any prefix, and a topic under the command prefix.
ForeignTopics == {"unknown", apply_state_topic_prefix \o "status"}
Topics == {state_topic_prefix \o k : k \in HandledKeys \cup UnknownKeys} \cup ForeignTopics

\* Payloads, as the bytes the transport delivers; the last is not valid UTF-8.
PayloadTexts == {"1", "online"}
Payloads == {Encode(t) : t \in PayloadTexts} \cup {<<255>>}

\* The reports that decide preset_mode.
PresetTopics == {state_topic_prefix \o k : k \in {"party", "absent"}}
PresetPayloads == {Encode(t) : t \in {"1", "2"}}

\* Result codes of a connect callback: 0 is success, 5 is "not authorised".
ResultCodes == {0, 5}

TemperatureInputs == (MIN_TEMPERATURE - TempMargin)..(MAX_TEMPERATURE + TempMargin)

\* The binary sensors binary_sensor.async_setup_entry creates, in its order, each
\* named by its state_key.
Sensors == <<"is_heating", "is_online">>
SensorKeys == {Sensors[i] : i \in 1..Len(Sensors)}

(***************************************************************************)
(* State.                                                                  *)
(***************************************************************************)
VARIABLES
    state,                \* self.state: the EnsyState record
    device_is_online,     \* asyncio.Event: the online latch
    device_is_discovered, \* asyncio.Event: the discovered latch
    on_state_updated,     \* the list of registered observers (sensor keys)
    attr_is_on,           \* each sensor's _attr_is_on
    lifecycle,            \* "constructed", "started" (loop_start) or "stopped"
    connected,            \* whether the transport holds a connection
    loop_queue,           \* closures queued on the event loop, oldest first
    received,             \* message callbacks delivered so far
    last_preset_report,   \* history: the latest party or absent report processed
    sequential,           \* history: the client had each closure run when it was queued
    probe,                \* test_connectivity: where it is, its clock and its outcome
    \* What the latest step did:
    call,                 \* the operation that ran, with its arguments
    published,            \* its publish() calls, in order
    subscribed,           \* its subscribe() calls, in order
    notified,             \* its observer invocations, in order
    raised                \* the exception it ended with, or "none"

vars == <<state, device_is_online, device_is_discovered, on_state_updated,
          attr_is_on, lifecycle, connected, loop_queue, received,
          last_preset_report, sequential, probe, call, published, subscribed,
          notified, raised>>

client_vars == <<state, device_is_online, device_is_discovered, last_preset_report>>

Init ==
    /\ state = EnsyState
    /\ device_is_online = FALSE
    /\ device_is_discovered = FALSE
    /\ on_state_updated = <<>>
    /\ attr_is_on = [k \in SensorKeys |-> None]
    /\ lifecycle = "constructed"
    /\ connected = FALSE
    /\ loop_queue = <<>>
    /\ received = 0
    /\ last_preset_report = None
    /\ sequential = [state |-> EnsyState, device_is_online |-> FALSE,
                     device_is_discovered |-> FALSE,
                     attr_is_on |-> [k \in SensorKeys |-> None]]
    /\ probe = [pc |-> "idle", clock |-> 0, cause |-> "none", result |-> None,
                propagated |-> "none"]
    /\ call = [op |-> "__init__", args |-> <<MacAddressInput>>]
    /\ published = <<>>
    /\ subscribed = <<>>
    /\ notified = <<>>
    /\ raised = "none"

(***************************************************************************)
(* Observers: EnsyBinarySensor._on_state_change, registered on             *)
(* on_state_updated and called with the arguments the client passes.       *)
(***************************************************************************)
\* getattr(state, key), as an Optional (is_online is a plain bool).
GetAttr(st, key) == IF key = "is_online" THEN Some(st.is_online) ELSE st[key]

\* The number of positional parameters of _on_state_change besides self.
ObserverArity == 1

\* One call of sensor `key`'s _on_state_change with the positional arguments
\* `args`, the sensor's _attr_is_on being `attr`: the exception it ends with
\* and the new _attr_is_on.  A call with the wrong number of arguments raises
\* TypeError before the body runs.
OnStateChange(key, args, attr) ==
    IF Len(args) # ObserverArity
    THEN [raised |-> "TypeError", attr |-> attr, ran |-> FALSE]
    ELSE LET value == GetAttr(args[1], key) IN
         IF value = attr
         THEN [raised |-> "none", attr |-> attr, ran |-> TRUE]
         ELSE IF IsNone(value)
         THEN [raised |-> "AssertionError", attr |-> attr, ran |-> TRUE]
         ELSE [raised |-> "none", attr |-> value, ran |-> TRUE]

\* Mutant: the loop returns after the first callback.
RunCallbacks_FirstOnly(callbacks, args, attrs, done) ==
    IF Len(callbacks) = 0
    THEN [raised |-> "none", attrs |-> attrs, notified |-> done]
    ELSE LET key == Head(callbacks)
             r == OnStateChange(key, args, attrs[key])
         IN  [raised |-> r.raised, attrs |-> [attrs EXCEPT ![key] = r.attr],
              notified |-> Append(done, [observer |-> key, args |-> args, ran |-> r.ran])]

\* for callback in self.on_state_updated: callback(*args)
\* The loop ends at the first callback that raises.
RECURSIVE RunCallbacks(_, _, _, _)
RunCallbacks(callbacks, args, attrs, done) ==
    IF Len(callbacks) = 0
    THEN [raised |-> "none", attrs |-> attrs, notified |-> done]
    ELSE LET key == Head(callbacks)
             r == OnStateChange(key, args, attrs[key])
             log == Append(done, [observer |-> key, args |-> args, ran |-> r.ran])
             attrs2 == [attrs EXCEPT ![key] = r.attr]
         IN  IF r.raised # "none"
             THEN [raised |-> r.raised, attrs |-> attrs2, notified |-> log]
             ELSE RunCallbacks(Tail(callbacks), args, attrs2, log)

(***************************************************************************)
(* Topic decoder: the match statement of EnsyClient._on_message._propagate.*)
(***************************************************************************)
\* Mutant: the extract and exhaust readings are stored in each other's field.
FieldOf_ExtractExhaustSwapped(key) ==
    CASE key = "temperature" -> "temperature_target"
      [] key = "status" -> "is_online"
      [] key = "fan" -> "fan_mode"
      [] key = "party" -> "preset_mode"
      [] key = "absent" -> "preset_mode"
      [] key = "textr" -> "temperature_exhaust"
      [] key = "texauh" -> "temperature_extract"
      [] key = "tsupl" -> "temperature_supply"
      [] key = "tout" -> "temperature_outside"
      [] key = "overheating" -> "temperature_heater"
      [] key = "he" -> "is_heating"

\* The Device State field each handled key is decoded into.
FieldOf(key) ==
    CASE key = "temperature" -> "temperature_target"
      [] key = "status" -> "is_online"
      [] key = "fan" -> "fan_mode"
      [] key = "party" -> "preset_mode"
      [] key = "absent" -> "preset_mode"
      [] key = "textr" -> "temperature_extract"
      [] key = "texauh" -> "temperature_exhaust"
      [] key = "tsupl" -> "temperature_supply"
      [] key = "tout" -> "temperature_outside"
      [] key = "overheating" -> "temperature_heater"
      [] key = "he" -> "is_heating"

\* Mutant: only "2" disables party, any other payload enables it.
PartyPreset_OnlyTwoDisables(value) == IF value = "2" THEN HOME ELSE BOOST

\* Mutant: absent is enabled by "0", not by "1".
AbsentPreset_Inverted(value) == IF value = "0" THEN AWAY ELSE HOME

\* The preset a party or absent report stands for.
PartyPreset(value) == IF value = "1" THEN BOOST ELSE HOME
AbsentPreset(value) == IF value = "1" THEN AWAY ELSE HOME

\* Whether a case of the match statement takes the message (the fan case is
\* guarded by its payload); otherwise `case _` returns without notifying.
Matches(key, value) ==
    /\ key \in HandledKeys
    /\ key = "fan" => value \in {"1", "2", "3"}

\* Whether the matched case raises ValueError from int(value).
DecodeRaises(key, value) == key \in NumericKeys /\ ~IntParses(value)

\* The value the matched case assigns to FieldOf(key).
DecodedValue(key, value) ==
    CASE key \in NumericKeys -> Some(IntOf(value))
      [] key = "status" -> (value = "online")
      [] key = "fan" -> Some(IntOf(value))
      [] key = "party" -> Some(PartyPreset(value))
      [] key = "absent" -> Some(AbsentPreset(value))
      [] key = "he" -> Some(value = "1")

\* Mutant: a payload the rule cannot decode clears the key's field.
ApplyKey_ResetOnBad(st, key, value) ==
    IF Matches(key, value) /\ ~DecodeRaises(key, value)
    THEN [st EXCEPT ![FieldOf(key)] = DecodedValue(key, value)]
    ELSE IF key \in HandledKeys \ {"status"}
         THEN [st EXCEPT ![FieldOf(key)] = None]
         ELSE st

\* Mutant: a numeric payload that is not an integer is stored as 0.
ApplyKey_ZeroOnBadNumber(st, key, value) ==
    IF Matches(key, value) /\ ~DecodeRaises(key, value)
    THEN [st EXCEPT ![FieldOf(key)] = DecodedValue(key, value)]
    ELSE IF DecodeRaises(key, value)
         THEN [st EXCEPT ![FieldOf(key)] = Some(0)]
         ELSE st

\* self.state after the match statement.
ApplyKey(st, key, value) ==
    IF Matches(key, value) /\ ~DecodeRaises(key, value)
    THEN [st EXCEPT ![FieldOf(key)] = DecodedValue(key, value)]
    ELSE st

\* Mutant: only a message that matches a rule counts as a discovery signal.
DiscoveredLatchAfterMessage_OnlyWhenMatched(latch, key, value) ==
    latch \/ Matches(key, value)

\* if not self.device_is_discovered.is_set(): self.device_is_discovered.set()
DiscoveredLatchAfterMessage(latch, key, value) ==
    IF ~latch THEN TRUE ELSE latch

\* Mutant: the latch is never set.
OnlineLatchAfterMessage_NeverSet(latch, key, value) == latch

\* Mutant: the latch is set by the reports that are not "online".
OnlineLatchAfterMessage_Inverted(latch, key, value) ==
    IF key = "status" /\ value # "online" THEN TRUE ELSE latch

\* device_is_online after the status case: set when the report is "online",
\* left as it was otherwise.
OnlineLatchAfterMessage(latch, key, value) ==
    IF key = "status" /\ value = "online" THEN TRUE ELSE latch

(***************************************************************************)
(* Command encoder.                                                        *)
(***************************************************************************)
\* One publish() call with the default qos and retain.
Publish(topic, payload) ==
    [topic |-> topic, payload |-> payload, qos |-> DefaultQos, retain |-> DefaultRetain]

\* apply_state(key, value)
ApplyState(key, value) == <<Publish(apply_state_topic_prefix \o key, value)>>

\* Mutant: the comparison with the known preset is left out.
PresetModePublishes_NoEarlyReturn(preset_mode, st) ==
    CASE preset_mode = HOME -> ApplyState("absent", "0") \o ApplyState("party", "2")
      [] preset_mode = AWAY -> ApplyState("absent", "1")
      [] preset_mode = BOOST -> ApplyState("party", "1")
      [] OTHER -> <<>>

\* Mutant: HOME disables party with "0", and before clearing absent.
PresetModePublishes_PartyZeroFirst(preset_mode, st) ==
    IF Some(preset_mode) = st.preset_mode THEN <<>>
    ELSE CASE preset_mode = HOME -> ApplyState("party", "0") \o ApplyState("absent", "0")
           [] preset_mode = AWAY -> ApplyState("absent", "1")
           [] preset_mode = BOOST -> ApplyState("party", "1")
           [] OTHER -> <<>>

\* The publishes of set_preset_mode(preset_mode) when self.state is st.
PresetModePublishes(preset_mode, st) ==
    IF Some(preset_mode) = st.preset_mode THEN <<>>
    ELSE CASE preset_mode = HOME -> ApplyState("absent", "0") \o ApplyState("party", "2")
           [] preset_mode = AWAY -> ApplyState("absent", "1")
           [] preset_mode = BOOST -> ApplyState("party", "1")
           [] OTHER -> <<>>

\* Mutant: the preset is cleared only when it is known to be AWAY or BOOST.
FanModePublishes_OnlyAwayOrBoost(speed, st) ==
    (IF st.preset_mode \in {Some(AWAY), Some(BOOST)}
     THEN PresetModePublishes(HOME, st) ELSE <<>>)
        \o <<Publish(apply_state_topic_prefix \o "fan", Str(speed))>>

\* The publishes of set_fan_mode(speed) when self.state is st.
FanModePublishes(speed, st) ==
    (IF st.preset_mode # Some(HOME) THEN PresetModePublishes(HOME, st) ELSE <<>>)
        \o <<Publish(apply_state_topic_prefix \o "fan", Str(speed))>>

\* Mutant: the upper bound is exclusive.
TemperatureInBounds_ExclusiveUpper(temperature) ==
    MIN_TEMPERATURE <= temperature /\ temperature < MAX_TEMPERATURE

\* Whether set_target_temperature(temperature) passes its range check.
TemperatureInBounds(temperature) ==
    MIN_TEMPERATURE <= temperature /\ temperature <= MAX_TEMPERATURE

\* The publishes of set_target_temperature(temperature).
TargetTemperaturePublishes(temperature) ==
    IF TemperatureInBounds(temperature)
    THEN <<Publish(apply_state_topic_prefix \o "temperature", Str(temperature))>>
    ELSE <<>>

(***************************************************************************)
(* Actions.  Each records what it did in call, published, subscribed,      *)
(* notified and raised.                                                    *)
(***************************************************************************)
Did(op, args, pubs, subs, notes, exc) ==
    /\ call' = [op |-> op, args |-> args]
    /\ published' = pubs
    /\ subscribed' = subs
    /\ notified' = notes
    /\ raised' = exc

\* __init__.async_setup_entry: the platforms add their entities, each sensor's
\* async_added_to_hass registers its _on_state_change, then connect().
AsyncSetupEntry ==
    /\ lifecycle = "constructed"
    /\ on_state_updated' = on_state_updated \o Sensors
    /\ lifecycle' = "started"
    /\ Did("async_setup_entry", <<>>, <<>>, <<>>, <<>>, "none")
    /\ UNCHANGED <<client_vars, sequential, probe, attr_is_on, connected, loop_queue,
                   received>>

\* connect() on a client nothing observes (as test_connectivity uses it).
Connect ==
    /\ lifecycle = "constructed"
    /\ lifecycle' = "started"
    /\ Did("connect", <<>>, <<>>, <<>>, <<>>, "none")
    /\ UNCHANGED <<client_vars, sequential, probe, on_state_updated, attr_is_on,
                   connected, loop_queue, received>>

\* stop(): the transport's loop is asked to halt; no callback comes after it.
Stop ==
    /\ lifecycle = "started"
    /\ lifecycle' = "stopped"
    /\ Did("stop", <<>>, <<>>, <<>>, <<>>, "none")
    /\ UNCHANGED <<client_vars, sequential, probe, on_state_updated, attr_is_on,
                   connected, loop_queue, received>>

\* Mutant: the result code is not tested.
OnConnect_AlwaysSubscribes(rc) ==
    /\ lifecycle = "started"
    /\ ~connected
    /\ connected' = (rc = 0)
    /\ Did("_on_connect", <<rc>>, <<>>, <<state_topic_prefix \o "#">>, <<>>, "none")
    /\ UNCHANGED <<client_vars, sequential, probe, on_state_updated, attr_is_on,
                   lifecycle, loop_queue, received>>

\* _on_connect(client, userdata, flags, rc), on the transport's thread.
OnConnect(rc) ==
    /\ lifecycle = "started"
    /\ ~connected
    /\ connected' = (rc = 0)
    /\ Did("_on_connect", <<rc>>, <<>>,
           IF rc # 0 THEN <<>> ELSE <<state_topic_prefix \o "#">>, <<>>, "none")
    /\ UNCHANGED <<client_vars, sequential, probe, on_state_updated, attr_is_on,
                   lifecycle, loop_queue, received>>

\* _on_connect_fail(), on the transport's thread: a log line.
OnConnectFail ==
    /\ lifecycle = "started"
    /\ ~connected
    /\ Did("_on_connect_fail", <<>>, <<>>, <<>>, <<>>, "none")
    /\ UNCHANGED <<client_vars, sequential, probe, on_state_updated, attr_is_on,
                   lifecycle, connected, loop_queue, received>>

\* Mutant: the prefix test is left out.
MessageClosures_NoPrefixTest(topic, payload) ==
    IF ~Decodes(payload) THEN <<>>
    ELSE <<[kind |-> "message",
            key |-> SubSeq(topic, Len(state_topic_prefix) + 1, Len(topic)),
            value |-> Decode(payload)]>>

\* The closure _on_message queues for (topic, payload), if it queues one.
MessageClosures(topic, payload) ==
    IF ~Decodes(payload) THEN <<>>
    ELSE IF ~StartsWith(topic, state_topic_prefix) THEN <<>>
    ELSE <<[kind |-> "message",
            key |-> SubSeq(topic, Len(state_topic_prefix) + 1, Len(topic)),
            value |-> Decode(payload)]>>

\* Mutant: the closure is put ahead of the closures already queued.
CallSoon_AtFront(queue, closures) == closures \o queue

\* self.hass.loop.call_soon_threadsafe(_propagate): the closure is queued
\* behind the closures already waiting.
CallSoon(queue, closures) == queue \o closures

\* What running closure c does to a client c == [state, device_is_online,
\* device_is_discovered, attr_is_on], with the observers now registered.
RunClosure(c, s) ==
    IF c.kind = "message"
    THEN LET st == ApplyKey(s.state, c.key, c.value)
             applied == Matches(c.key, c.value) /\ ~DecodeRaises(c.key, c.value)
         IN  [state |-> st,
              device_is_online |->
                  OnlineLatchAfterMessage(s.device_is_online, c.key, c.value),
              device_is_discovered |->
                  DiscoveredLatchAfterMessage(s.device_is_discovered, c.key, c.value),
              attr_is_on |->
                  IF applied
                  THEN RunCallbacks(on_state_updated, <<st>>, s.attr_is_on, <<>>).attrs
                  ELSE s.attr_is_on]
    ELSE LET st == [s.state EXCEPT !.is_online = FALSE]
         IN  [state |-> st,
              device_is_online |-> FALSE,
              device_is_discovered |-> s.device_is_discovered,
              attr_is_on |-> RunCallbacks(on_state_updated, <<"status", "offline", st>>,
                                          s.attr_is_on, <<>>).attrs]

\* The closures of a queue run one by one, oldest first.
RECURSIVE RunClosures(_, _)
RunClosures(queue, s) ==
    IF Len(queue) = 0 THEN s ELSE RunClosures(Tail(queue), RunClosure(Head(queue), s))

\* The state topic on which a published command is echoed back: the same key
\* under the state prefix.
EchoTopic(topic) ==
    state_topic_prefix
        \o SubSeq(topic, Len(apply_state_topic_prefix) + 1, Len(topic))

\* The closures _on_message queues when the publishes are echoed back in their
\* order, each payload as the bytes of the published string.
RECURSIVE EchoClosures(_)
EchoClosures(pubs) ==
    IF Len(pubs) = 0 THEN <<>>
    ELSE MessageClosures(EchoTopic(Head(pubs).topic), Encode(Head(pubs).payload))
             \o EchoClosures(Tail(pubs))

\* Device State once the echoes of the latest step's publishes are processed.
EchoedState ==
    RunClosures(EchoClosures(published),
                [state |-> state, device_is_online |-> device_is_online,
                 device_is_discovered |-> device_is_discovered,
                 attr_is_on |-> attr_is_on]).state

\* _on_message(client, userdata, msg), on the transport's thread.
OnMessage(topic, payload) ==
    /\ lifecycle = "started"
    /\ connected
    /\ received < MaxMessages
    /\ Len(loop_queue) < MaxQueue
    /\ received' = received + 1
    /\ loop_queue' = CallSoon(loop_queue, MessageClosures(topic, payload))
    /\ sequential' = RunClosures(MessageClosures(topic, payload), sequential)
    /\ Did("_on_message", <<topic, payload>>, <<>>, <<>>, <<>>,
           IF Decodes(payload) THEN "none" ELSE "UnicodeDecodeError")
    /\ UNCHANGED <<client_vars, probe, on_state_updated, attr_is_on, lifecycle,
                   connected>>

\* Mutant: the callback clears the latch and is_online itself, on the
\* transport's thread, and queues only the notification.
OnDisconnect_ClearsInline ==
    /\ lifecycle = "started"
    /\ connected
    /\ Len(loop_queue) < MaxQueue
    /\ connected' = FALSE
    /\ device_is_online' = FALSE
    /\ state' = [state EXCEPT !.is_online = FALSE]
    /\ LET closure == [kind |-> "disconnect", key |-> "", value |-> ""]
       IN  /\ loop_queue' = CallSoon(loop_queue, <<closure>>)
           /\ sequential' = RunClosure(closure, sequential)
    /\ Did("_on_disconnect", <<>>, <<>>, <<>>, <<>>, "none")
    /\ UNCHANGED <<device_is_discovered, last_preset_report, probe, on_state_updated,
                   attr_is_on, lifecycle, received>>

\* _on_disconnect(), on the transport's thread.
OnDisconnect ==
    /\ lifecycle = "started"
    /\ connected
    /\ Len(loop_queue) < MaxQueue
    /\ connected' = FALSE
    /\ LET closure == [kind |-> "disconnect", key |-> "", value |-> ""]
       IN  /\ loop_queue' = CallSoon(loop_queue, <<closure>>)
           /\ sequential' = RunClosure(closure, sequential)
    /\ Did("_on_disconnect", <<>>, <<>>, <<>>, <<>>, "none")
    /\ UNCHANGED <<client_vars, probe, on_state_updated, attr_is_on, lifecycle,
                   received>>

\* The event loop runs the oldest queued closure, _on_message's _propagate.
PropagateMessage ==
    /\ Len(loop_queue) > 0
    /\ Head(loop_queue).kind = "message"
    /\ LET key == Head(loop_queue).key
           value == Head(loop_queue).value
           fails == Matches(key, value) /\ DecodeRaises(key, value)
           st == ApplyKey(state, key, value)
           run == IF Matches(key, value) /\ ~fails
                  THEN RunCallbacks(on_state_updated, <<st>>, attr_is_on, <<>>)
                  ELSE [raised |-> IF fails THEN "ValueError" ELSE "none",
                        attrs |-> attr_is_on, notified |-> <<>>]
       IN  /\ device_is_discovered' =
                 DiscoveredLatchAfterMessage(device_is_discovered, key, value)
           /\ state' = st
           /\ device_is_online' = OnlineLatchAfterMessage(device_is_online, key, value)
           /\ attr_is_on' = run.attrs
           /\ last_preset_report' = IF key \in {"party", "absent"}
                                    THEN Some(<<key, value>>)
                                    ELSE last_preset_report
           /\ Did("_on_message._propagate", <<key, value>>, <<>>, <<>>,
                  run.notified, run.raised)
    /\ loop_queue' = Tail(loop_queue)
    /\ UNCHANGED <<sequential, probe, on_state_updated, lifecycle, connected, received>>

\* Mutant: the disconnect closure clears the discovered latch as well.
PropagateDisconnect_ClearsDiscovered ==
    /\ Len(loop_queue) > 0
    /\ Head(loop_queue).kind = "disconnect"
    /\ LET st == [state EXCEPT !.is_online = FALSE]
           run == RunCallbacks(on_state_updated, <<"status", "offline", st>>,
                               attr_is_on, <<>>)
       IN  /\ device_is_online' = FALSE
           /\ device_is_discovered' = FALSE
           /\ state' = st
           /\ attr_is_on' = run.attrs
           /\ Did("_on_disconnect._propagate", <<>>, <<>>, <<>>,
                  run.notified, run.raised)
    /\ loop_queue' = Tail(loop_queue)
    /\ UNCHANGED <<last_preset_report, sequential, probe, on_state_updated, lifecycle,
                   connected, received>>

\* The event loop runs the oldest queued closure, _on_disconnect's _propagate.
PropagateDisconnect ==
    /\ Len(loop_queue) > 0
    /\ Head(loop_queue).kind = "disconnect"
    /\ LET st == [state EXCEPT !.is_online = FALSE]
           run == RunCallbacks(on_state_updated, <<"status", "offline", st>>,
                               attr_is_on, <<>>)
       IN  /\ device_is_online' = FALSE
           /\ state' = st
           /\ attr_is_on' = run.attrs
           /\ Did("_on_disconnect._propagate", <<>>, <<>>, <<>>,
                  run.notified, run.raised)
    /\ loop_queue' = Tail(loop_queue)
    /\ UNCHANGED <<device_is_discovered, last_preset_report, sequential, probe,
                   on_state_updated, lifecycle, connected, received>>

\* set_target_temperature(temperature), on the event loop.
SetTargetTemperature(temperature) ==
    /\ Did("set_target_temperature", <<temperature>>,
           TargetTemperaturePublishes(temperature), <<>>, <<>>,
           IF TemperatureInBounds(temperature) THEN "none" ELSE "ValueError")
    /\ UNCHANGED <<client_vars, sequential, probe, on_state_updated, attr_is_on,
                   lifecycle, connected, loop_queue, received>>

\* set_fan_mode(speed), on the event loop.
SetFanMode(speed) ==
    /\ Did("set_fan_mode", <<speed>>, FanModePublishes(speed, state), <<>>, <<>>, "none")
    /\ UNCHANGED <<client_vars, sequential, probe, on_state_updated, attr_is_on,
                   lifecycle, connected, loop_queue, received>>

\* Mutant: the command records the preset it asked for in self.state.
SetPresetMode_RecordsPreset(preset_mode) ==
    /\ Did("set_preset_mode", <<preset_mode>>, PresetModePublishes(preset_mode, state),
           <<>>, <<>>, "none")
    /\ state' = [state EXCEPT !.preset_mode = Some(preset_mode)]
    /\ UNCHANGED <<device_is_online, device_is_discovered, last_preset_report,
                   sequential, probe, on_state_updated, attr_is_on, lifecycle,
                   connected, loop_queue, received>>

\* set_preset_mode(preset_mode), on the event loop.
SetPresetMode(preset_mode) ==
    /\ Did("set_preset_mode", <<preset_mode>>, PresetModePublishes(preset_mode, state),
           <<>>, <<>>, "none")
    /\ UNCHANGED <<client_vars, sequential, probe, on_state_updated, attr_is_on,
                   lifecycle, connected, loop_queue, received>>

(***************************************************************************)
(* EnsyClient.test_connectivity: the connectivity probe.  Its client is    *)
(* the client of this module, constructed by the probe and observed by     *)
(* nobody.  The probe's clock counts the time units it has waited; the     *)
(* event loop resumes a waiter whose latch is set before it lets the       *)
(* timeout run out, so time passes only while the latch is clear.          *)
(***************************************************************************)
\* hass.timeout.async_timeout(10)
PROBE_TIMEOUT == 10

\* What ends the wait: the latch, the timeout, an exception raised in the
\* wait, or the cancellation of the probe's task.
ProbeCauses == {"discovered", "TimeoutError", "Exception", "CancelledError"}
ProbeErrors == {"Exception", "CancelledError"}

\* Topics and payloads the transport hands to the probe's client.
ProbeTopics == {state_topic_prefix \o "status", state_topic_prefix \o "rm", "unknown"}
ProbePayloads == {Encode("online")}

\* Mutant: there is no `except Exception` clause.
ProbePropagated_NoExceptException(cause) ==
    IF cause \in {"Exception", "CancelledError"} THEN cause ELSE "none"

\* The exception test_connectivity lets through to its caller: the except
\* clauses catch TimeoutError and Exception, and CancelledError is neither.
ProbePropagated(cause) ==
    IF cause = "CancelledError" THEN cause ELSE "none"

\* What test_connectivity returns: True from inside the try block, False
\* after an except clause, nothing when the exception goes through.
ProbeResult(cause) ==
    IF cause = "discovered" THEN Some(TRUE)
    ELSE IF ProbePropagated(cause) = "none" THEN Some(FALSE)
    ELSE None

\* Mutant: stop() is called by the except clauses, not by a finally clause.
ProbeStops_InExceptClauses(cause) == cause \in {"TimeoutError", "Exception"}

\* finally: ensy_client.stop()
ProbeStops(cause) == TRUE

\* ensy_client = EnsyClient(hass, mac, allow_insecure_tls);
\* await ensy_client.connect(); then the wait begins.
TestConnectivity ==
    /\ probe.pc = "idle"
    /\ lifecycle = "constructed"
    /\ lifecycle' = "started"
    /\ probe' = [probe EXCEPT !.pc = "waiting"]
    /\ Did("test_connectivity", <<MacAddressInput>>, <<>>, <<>>, <<>>, "none")
    /\ UNCHANGED <<client_vars, sequential, on_state_updated, attr_is_on, connected,
                   loop_queue, received>>

\* await ensy_client.connect() raises (configure_tls fails): the call stands
\* before the try block, so the exception goes to the caller and no clause of
\* the try statement runs; the transport's loop was never started.
TestConnectivityConnectRaises ==
    /\ probe.pc = "idle"
    /\ lifecycle = "constructed"
    /\ probe' = [probe EXCEPT !.pc = "done", !.cause = "connect",
                              !.propagated = "Exception"]
    /\ Did("test_connectivity", <<MacAddressInput>>, <<>>, <<>>, <<>>, "Exception")
    /\ UNCHANGED <<client_vars, sequential, on_state_updated, attr_is_on, lifecycle,
                   connected, loop_queue, received>>

\* The wait ends for `cause`: the except and finally clauses run and the
\* probe returns or raises, in one step of the event loop.
ProbeExit(cause, clock) ==
    /\ probe' = [pc |-> "done", clock |-> clock, cause |-> cause,
                 result |-> ProbeResult(cause), propagated |-> ProbePropagated(cause)]
    /\ lifecycle' = IF ProbeStops(cause) THEN "stopped" ELSE lifecycle
    /\ Did("test_connectivity.exit", <<cause>>, <<>>, <<>>, <<>>, ProbePropagated(cause))
    /\ UNCHANGED <<client_vars, sequential, on_state_updated, attr_is_on, connected,
                   loop_queue, received>>

\* A time unit passes while the probe waits and the latch is clear.
ProbeTick ==
    /\ probe.pc = "waiting"
    /\ ~device_is_discovered
    /\ probe.clock + 1 < PROBE_TIMEOUT
    /\ probe' = [probe EXCEPT !.clock = probe.clock + 1]
    /\ Did("async_timeout", <<probe.clock + 1>>, <<>>, <<>>, <<>>, "none")
    /\ UNCHANGED <<client_vars, sequential, on_state_updated, attr_is_on, lifecycle,
                   connected, loop_queue, received>>

\* The last time unit passes with the latch clear: async_timeout raises
\* TimeoutError into the wait.
ProbeTimeout ==
    /\ probe.pc = "waiting"
    /\ ~device_is_discovered
    /\ probe.clock + 1 = PROBE_TIMEOUT
    /\ ProbeExit("TimeoutError", PROBE_TIMEOUT)

\* await ensy_client.device_is_discovered.wait() returns: the latch is set.
ProbeDiscovered ==
    /\ probe.pc = "waiting"
    /\ device_is_discovered
    /\ ProbeExit("discovered", probe.clock)

\* The wait raises: an unexpected exception, or the task's cancellation.
ProbeError(exc) ==
    /\ probe.pc = "waiting"
    /\ ProbeExit(exc, probe.clock)

\* Steps of the client's lifecycle and of the transport's callbacks.
Lifecycle ==
    \/ AsyncSetupEntry
    \/ Connect
    \/ Stop
    \/ \E rc \in ResultCodes : OnConnect(rc)
    \/ OnConnectFail
    \/ OnDisconnect

\* Steps of the event loop running queued closures.
EventLoop ==
    \/ PropagateMessage
    \/ PropagateDisconnect

\* The command operations.
Commands ==
    \/ \E temperature \in TemperatureInputs : SetTargetTemperature(temperature)
    \/ \E speed \in FanMode : SetFanMode(speed)
    \/ \E preset_mode \in PresetMode : SetPresetMode(preset_mode)

\* The whole client, the appliance reporting only its party and absent flags.
Next ==
    \/ Lifecycle
    \/ \E topic \in PresetTopics, payload \in PresetPayloads : OnMessage(topic, payload)
    \/ EventLoop
    \/ Commands

Spec == Init /\ [][Next]_vars

\* The inbound path alone, with every topic and payload.
InboundNext ==
    \/ Lifecycle
    \/ \E topic \in Topics, payload \in Payloads : OnMessage(topic, payload)
    \/ EventLoop

InboundSpec == Init /\ [][InboundNext]_vars

\* The connectivity probe and the client it constructs.
ProbeNext ==
    \/ TestConnectivity
    \/ TestConnectivityConnectRaises
    \/ \E rc \in ResultCodes : OnConnect(rc)
    \/ OnConnectFail
    \/ OnDisconnect
    \/ \E topic \in ProbeTopics, payload \in ProbePayloads : OnMessage(topic, payload)
    \/ EventLoop
    \/ ProbeTick
    \/ ProbeTimeout
    \/ ProbeDiscovered
    \/ \E exc \in ProbeErrors : ProbeError(exc)

ProbeSpec == Init /\ [][ProbeNext]_vars

(***************************************************************************)
(* Properties.                                                             *)
(***************************************************************************)
\* The steps a property speaks of, told by what the step recorded.
RanOnMessage == call'.op = "_on_message" /\ received' = received + 1
RanPropagateMessage ==
    call'.op = "_on_message._propagate" /\ Len(loop_queue) > 0
        /\ loop_queue' = Tail(loop_queue) /\ Head(loop_queue).kind = "message"
RanPropagateDisconnect ==
    call'.op = "_on_disconnect._propagate" /\ Len(loop_queue) > 0
        /\ loop_queue' = Tail(loop_queue) /\ Head(loop_queue).kind = "disconnect"

\* C1: a message whose topic does not start with the device's state prefix, or
\* whose key is not a handled key, leaves every field of Device State unchanged
\* and invokes no observer: the callback of the former queues nothing, and the
\* closure of the latter neither changes the state nor calls an observer.
C1_UnknownMessageIgnored ==
    [][/\ (RanOnMessage /\ ~StartsWith(call'.args[1], "units/001a2b000001/unit/"))
            => /\ state' = state
               /\ loop_queue' = loop_queue
               /\ notified' = <<>>
               /\ attr_is_on' = attr_is_on
       /\ (RanPropagateMessage /\ call'.args[1] \notin HandledKeys)
            => /\ state' = state
               /\ notified' = <<>>
               /\ attr_is_on' = attr_is_on]_vars

\* The closure of an unknown key has run on a client with observers whose state
\* already holds a report.
C1_Witness ==
    /\ call.op = "_on_message._propagate"
    /\ call.args[1] = "rm"
    /\ on_state_updated # <<>>
    /\ state # EnsyState

\* C2: from a freshly constructed client (both latches clear), processing a
\* status=online message sets the online latch, the discovered latch and
\* is_online; processing a disconnect callback clears the online latch and
\* is_online and leaves the discovered latch as it was.
C2_OnlineThenDisconnect ==
    /\ (~device_is_online /\ ~device_is_discovered /\ state.is_online = FALSE)
    /\ [][/\ (RanPropagateMessage /\ call'.args = <<"status", "online">>)
               => /\ device_is_online'
                  /\ device_is_discovered'
                  /\ state'.is_online = TRUE
          /\ RanPropagateDisconnect
               => /\ ~device_is_online'
                  /\ state'.is_online = FALSE
                  /\ device_is_discovered' = device_is_discovered]_vars

\* A disconnect has been processed after a status=online report: the online
\* sensor still holds the TRUE it was given by that report.
C2_Witness ==
    /\ call.op = "_on_disconnect._propagate"
    /\ attr_is_on["is_online"] = Some(TRUE)
    /\ device_is_discovered
    /\ ~device_is_online
    /\ state.is_online = FALSE

\* C3: after a status message with any payload other than "online" is
\* processed, the online latch is not set.
C3_StatusOtherClearsLatch ==
    [][(RanPropagateMessage /\ call'.args[1] = "status" /\ call'.args[2] # "online")
          => ~device_is_online']_vars

\* C4: every registered observer is invoked with the current Device State as
\* its only argument, on every applied message mutation and on the disconnect
\* closure, after which the online sensor holds is_online = FALSE.
C4_ObserversGetState ==
    LET applied == /\ call.op = "_on_message._propagate"
                   /\ Matches(call.args[1], call.args[2])
                   /\ ~DecodeRaises(call.args[1], call.args[2])
        forced == call.op = "_on_disconnect._propagate"
    IN  (applied \/ forced)
          => /\ Len(notified) = Len(on_state_updated)
             /\ \A i \in 1..Len(notified) :
                  /\ notified[i].observer = on_state_updated[i]
                  /\ notified[i].args = <<state>>
                  /\ notified[i].ran
             /\ (forced /\ \E i \in 1..Len(on_state_updated) : on_state_updated[i] = "is_online")
                  => attr_is_on["is_online"] = Some(FALSE)

\* C5: preset_mode is decided by the latest party or absent report processed:
\* unknown if there is none, BOOST for party=1, AWAY for absent=1, HOME for any
\* other payload on either key; no other key changes it.
C5_PresetFollowsLatestReport ==
    state.preset_mode =
        IF last_preset_report = None THEN None
        ELSE LET key == Get(last_preset_report)[1]
                 value == Get(last_preset_report)[2]
             IN  IF key = "party" /\ value = "1" THEN Some(BOOST)
                 ELSE IF key = "absent" /\ value = "1" THEN Some(AWAY)
                 ELSE Some(HOME)

\* A report on another key has been processed after party=1, and the preset is
\* still BOOST.
C5_Witness ==
    /\ call.op = "_on_message._propagate"
    /\ call.args[1] \in HandledKeys \ {"party", "absent"}
    /\ last_preset_report = Some(<<"party", "1">>)
    /\ state.preset_mode = Some(BOOST)

\* The (topic, payload) pairs of the latest step's publishes, in order.
PublishedPairs == [i \in 1..Len(published) |-> <<published[i].topic, published[i].payload>>]

\* C6: set_target_temperature(v) publishes exactly one message, on
\* units/<address>/app/temperature with the decimal string of v as payload, when
\* 15 <= v <= 26; for every other v it raises a validation error and publishes
\* nothing.
C6_TargetTemperature ==
    call.op = "set_target_temperature" =>
        LET v == call.args[1] IN
        IF 15 <= v /\ v <= 26
        THEN /\ raised = "none"
             /\ Len(published) = 1
             /\ published[1].topic = "units/001a2b000001/app/temperature"
             /\ LET p == published[1].payload IN
                  /\ Len(p) > 0
                  /\ \A i \in 1..Len(p) : Char(p, i) \in DigitSet
                  /\ Len(p) > 1 => Char(p, 1) # "0"
                  /\ DigitGroupVal(p, 0) = v
        ELSE /\ raised = "ValueError"
             /\ published = <<>>

\* The upper bound has been accepted.
C6_Witness ==
    /\ call = [op |-> "set_target_temperature", args |-> <<26>>]
    /\ Len(published) = 1
    /\ raised = "none"

\* C7: set_fan_mode(s) publishes absent=0 and party=2 before fan=<s> whenever
\* the known preset_mode is not HOME (AWAY, BOOST or unknown), and only fan=<s>
\* when it is HOME; the fan message is always the last one.
C7_FanModeClearsPreset ==
    call.op = "set_fan_mode" =>
        LET fan == <<"units/001a2b000001/app/fan", <<"1", "2", "3">>[call.args[1]]>>
            absent == <<"units/001a2b000001/app/absent", "0">>
            party == <<"units/001a2b000001/app/party", "2">>
        IN  PublishedPairs = IF state.preset_mode = <<"home">>
                             THEN <<fan>>
                             ELSE <<absent, party, fan>>

\* The fan speed has been set while the preset was AWAY.
C7_Witness ==
    /\ call.op = "set_fan_mode"
    /\ state.preset_mode = Some(AWAY)
    /\ Len(published) = 3

\* C8: set_preset_mode(m) with m the currently known preset_mode publishes
\* nothing, for every m and however the preset was reached.
C8_SamePresetPublishesNothing ==
    (call.op = "set_preset_mode" /\ state.preset_mode = <<call.args[1]>>)
        => published = <<>>

\* BOOST has been asked for while the preset, set by a party=1 report, was BOOST.
C8_Witness ==
    /\ call = [op |-> "set_preset_mode", args |-> <<BOOST>>]
    /\ state.preset_mode = Some(BOOST)
    /\ last_preset_report = Some(<<"party", "1">>)

\* C9: set_preset_mode(m) with m different from the known preset_mode (or with
\* the preset unknown) publishes exactly: for HOME absent=0 then party=2, for
\* AWAY absent=1, for BOOST party=1, all under units/<address>/app/.
C9_PresetModePublishes ==
    (call.op = "set_preset_mode" /\ state.preset_mode # <<call.args[1]>>)
        => PublishedPairs =
             CASE call.args[1] = "home" -> <<<<"units/001a2b000001/app/absent", "0">>,
                                             <<"units/001a2b000001/app/party", "2">>>>
               [] call.args[1] = "away" -> <<<<"units/001a2b000001/app/absent", "1">>>>
               [] call.args[1] = "boost" -> <<<<"units/001a2b000001/app/party", "1">>>>

\* HOME has been asked for while the preset was BOOST.
C9_Witness ==
    /\ call = [op |-> "set_preset_mode", args |-> <<HOME>>]
    /\ state.preset_mode = Some(BOOST)
    /\ Len(published) = 2

\* The table of C10: the field each handled key is decoded into.
C10_Table == [temperature |-> "temperature_target", status |-> "is_online",
              fan |-> "fan_mode", party |-> "preset_mode", absent |-> "preset_mode",
              textr |-> "temperature_extract", texauh |-> "temperature_exhaust",
              tsupl |-> "temperature_supply", tout |-> "temperature_outside",
              overheating |-> "temperature_heater", he |-> "is_heating"]

\* C10: processing a message for a handled key k changes only the field the
\* table assigns to k, which then holds the decoded payload (or is left as it
\* was when the payload is not one the key's rule decodes).
C10_OnlyTheKeysField ==
    [][(RanPropagateMessage /\ call'.args[1] \in DOMAIN C10_Table)
          => LET key == call'.args[1]
                 value == call'.args[2]
                 field == C10_Table[key]
                 numeric == key \in {"temperature", "textr", "texauh", "tsupl",
                                     "tout", "overheating"}
             IN  /\ \A f \in Fields \ {field} : state'[f] = state[f]
                 /\ state'[field] =
                      CASE numeric -> IF IntParses(value) THEN <<IntOf(value)>>
                                      ELSE state[field]
                        [] key = "status" -> (value = "online")
                        [] key = "fan" -> IF value \in {"1", "2", "3"}
                                          THEN <<IntOf(value)>> ELSE state[field]
                        [] key = "party" -> IF value = "1" THEN <<"boost">> ELSE <<"home">>
                        [] key = "absent" -> IF value = "1" THEN <<"away">> ELSE <<"home">>
                        [] key = "he" -> <<value = "1">>]_vars

\* A supply temperature has been decoded into a state that already held the
\* online flag of an earlier report.
C10_Witness ==
    /\ call = [op |-> "_on_message._propagate", args |-> <<"tsupl", "1">>]
    /\ state.temperature_supply = Some(1)
    /\ state.is_online = TRUE

\* C11: a processed message that applies a decode rule invokes every registered
\* observer exactly once, in registration order, with the discovered latch
\* set; a processed message that applies no rule (an unknown key, or fan with a
\* payload outside "1", "2", "3") invokes no observer, so each observer is
\* notified once per applied mutation.
C11_ObserversOncePerMutation ==
    [][RanPropagateMessage =>
        LET key == call'.args[1]
            value == call'.args[2]
        IN  /\ (Matches(key, value) /\ ~DecodeRaises(key, value))
                 => /\ Len(notified') = Len(on_state_updated)
                    /\ \A i \in 1..Len(on_state_updated) :
                         /\ notified'[i].observer = on_state_updated[i]
                         /\ notified'[i].ran
                    /\ device_is_discovered'
                    /\ raised' = "none"
            /\ (key \notin HandledKeys \/ (key = "fan" /\ value \notin {"1", "2", "3"}))
                 => /\ notified' = <<>>
                    /\ state' = state
            /\ notified' # <<>> => (Matches(key, value) /\ ~DecodeRaises(key, value))]_vars

\* A heating report has been processed on a client with both sensors
\* registered, and both were notified.
C11_Witness ==
    /\ call.op = "_on_message._propagate"
    /\ call.args = <<"he", "1">>
    /\ Len(on_state_updated) = 2
    /\ Len(notified) = 2
    /\ notified[1].observer # notified[2].observer

\* C12: processing any message whose topic starts with the device's state
\* prefix sets the discovered latch, also when its key is unmatched or its
\* payload is ignored (every such message with a decodable payload is queued
\* for processing); a message whose topic does not carry the prefix queues
\* nothing and never sets the latch.
C12_PrefixSetsDiscovered ==
    [][/\ RanPropagateMessage => device_is_discovered'
       /\ (RanOnMessage /\ StartsWith(call'.args[1], "units/001a2b000001/unit/")
              /\ Decodes(call'.args[2]))
            => /\ Len(loop_queue') = Len(loop_queue) + 1
               /\ loop_queue'[Len(loop_queue')].kind = "message"
               /\ "units/001a2b000001/unit/" \o loop_queue'[Len(loop_queue')].key
                     = call'.args[1]
       /\ (RanOnMessage /\ ~StartsWith(call'.args[1], "units/001a2b000001/unit/"))
            => /\ loop_queue' = loop_queue
               /\ device_is_discovered' = device_is_discovered]_vars

\* The first message processed had an unmatched key: no field holds a value,
\* and the latch is set.
C12_Witness ==
    /\ call.op = "_on_message._propagate"
    /\ call.args[1] = "rm"
    /\ state = EnsyState
    /\ device_is_discovered

\* C13: once the discovered latch is set it stays set, whatever messages,
\* disconnect, connect and connect-failure callbacks, commands and stop()
\* follow.
C13_DiscoveredStaysSet ==
    [][device_is_discovered => device_is_discovered']_vars

\* After a report set the latch the client was stopped, and a disconnect
\* queued before the stop has been processed: the latch is still set.
C13_Witness ==
    /\ device_is_discovered
    /\ state.preset_mode # None
    /\ lifecycle = "stopped"
    /\ call.op = "_on_disconnect._propagate"

\* C14: every optional field of Device State starts unknown, and once it holds
\* a value no step returns it to unknown; the only field a disconnect resets
\* is is_online, to false.
C14_FieldsNeverUnknownAgain ==
    /\ \A f \in Fields \ {"is_online"} : state[f] = None
    /\ [][/\ \A f \in Fields \ {"is_online"} : state[f] # None => state'[f] # None
          /\ RanPropagateDisconnect => state' = [state EXCEPT !.is_online = FALSE]]_vars

\* A fan report the rule ignores has been processed after one that set the
\* fan mode, which still holds its value.
C14_Witness ==
    /\ call.op = "_on_message._propagate"
    /\ call.args = <<"fan", "online">>
    /\ state.fan_mode = Some(LOW)

\* C15: the closures queued by the transport's callbacks run in the order the
\* callbacks were delivered: running what is still queued, oldest first, on
\* the client as it is now gives the Device State, the latches and the
\* sensors' values that running each closure at its delivery would have
\* given; with nothing queued they are equal.
C15_DeliveryOrder ==
    RunClosures(loop_queue, [state |-> state, device_is_online |-> device_is_online,
                             device_is_discovered |-> device_is_discovered,
                             attr_is_on |-> attr_is_on]) = sequential

\* Two reports of the same field were queued together and the older one has
\* been processed: the field holds its value, and the newer one is still to
\* run.
C15_Witness ==
    /\ call.op = "_on_message._propagate"
    /\ call.args = <<"party", "1">>
    /\ Len(loop_queue) = 1
    /\ loop_queue[1] = [kind |-> "message", key |-> "party", value |-> "online"]
    /\ state.preset_mode = Some(BOOST)
    /\ sequential.state.preset_mode = Some(HOME)
    /\ on_state_updated # <<>>

C17_ProbeResult ==
    [][(probe.pc = "waiting" /\ probe'.pc = "done") =>
        /\ probe'.result = Some(TRUE)
             => /\ device_is_discovered
                /\ probe'.clock < PROBE_TIMEOUT
                /\ probe'.propagated = "none"
        /\ (device_is_discovered /\ probe'.cause \notin ProbeErrors)
             => probe'.result = Some(TRUE)
        /\ probe'.cause = "TimeoutError"
             => /\ ~device_is_discovered
                /\ probe'.clock = PROBE_TIMEOUT
                /\ probe'.result = Some(FALSE)
                /\ probe'.propagated = "none"
                /\ raised' = "none"
        /\ probe'.cause = "Exception"
             => /\ probe'.result = Some(FALSE)
                /\ probe'.propagated = "none"
                /\ raised' = "none"]_vars

\* The wait raised an unexpected exception after the client connected: the
\* probe returned False and raised nothing.
C17_Witness ==
    /\ probe.pc = "done"
    /\ probe.cause = "Exception"
    /\ probe.result = Some(FALSE)
    /\ call.op = "test_connectivity.exit"
    /\ raised = "none"
    /\ received > 0

\* C18: the transport's callbacks (message, disconnect, connect, connect
\* failure) leave Device State, both latches, the observers and the sensors
\* untouched and invoke no observer: a message callback queues at most one
\* closure and a disconnect callback exactly one; every change of Device
\* State or of a latch and every observer invocation is made by a step of the
\* event loop running a queued closure.
C18_CallbacksOnlyEnqueue ==
    [][/\ call'.op \in {"_on_message", "_on_disconnect", "_on_connect", "_on_connect_fail"}
            => /\ state' = state
               /\ device_is_online' = device_is_online
               /\ device_is_discovered' = device_is_discovered
               /\ on_state_updated' = on_state_updated
               /\ attr_is_on' = attr_is_on
               /\ notified' = <<>>
       /\ RanOnMessage
            => \/ loop_queue' = loop_queue
               \/ /\ Len(loop_queue') = Len(loop_queue) + 1
                  /\ SubSeq(loop_queue', 1, Len(loop_queue)) = loop_queue
       /\ (call'.op = "_on_disconnect" /\ connected /\ ~connected')
            => loop_queue' = Append(loop_queue, [kind |-> "disconnect", key |-> "",
                                                 value |-> ""])
       /\ (\/ state' # state
           \/ device_is_online' # device_is_online
           \/ device_is_discovered' # device_is_discovered
           \/ attr_is_on' # attr_is_on
           \/ notified' # <<>>)
            => /\ call'.op \in {"_on_message._propagate", "_on_disconnect._propagate"}
               /\ Len(loop_queue) > 0
               /\ loop_queue' = Tail(loop_queue)]_vars

\* The disconnect callback has returned on a client that was online: its
\* closure is queued, and the latch and is_online are still set.
C18_Witness ==
    /\ call.op = "_on_disconnect"
    /\ device_is_online
    /\ state.is_online = TRUE
    /\ Len(loop_queue) = 1
    /\ loop_queue[1].kind = "disconnect"

\* C19: a connect callback subscribes to units/<address>/unit/# when its
\* result code is 0 (success) and to nothing when it is not; neither the
\* connect callback nor the connect-failure callback changes Device State or
\* a latch, publishes, queues work or restarts the transport.
C19_SubscribeOnSuccessOnly ==
    [][/\ call'.op = "_on_connect"
            => subscribed' = IF call'.args[1] = 0
                             THEN <<"units/001a2b000001/unit/#">>
                             ELSE <<>>
       /\ call'.op = "_on_connect_fail" => subscribed' = <<>>
       /\ call'.op \in {"_on_connect", "_on_connect_fail"}
            => /\ state' = state
               /\ device_is_online' = device_is_online
               /\ device_is_discovered' = device_is_discovered
               /\ published' = <<>>
               /\ loop_queue' = loop_queue
               /\ lifecycle' = lifecycle
       /\ subscribed' # <<>> => (call'.op = "_on_connect" /\ call'.args[1] = 0)]_vars

\* A connect callback reported a failure code after the appliance had been
\* discovered and its connection lost: nothing was subscribed.
C19_Witness ==
    /\ call = [op |-> "_on_connect", args |-> <<5>>]
    /\ subscribed = <<>>
    /\ device_is_discovered
    /\ ~connected

\* C20: a message on a numeric key (temperature, textr, texauh, tsupl, tout,
\* overheating) whose payload is not an integer is not masked: its closure
\* raises ValueError on the event loop, every field of Device State (and the
\* online latch and every sensor) is left as it was and no observer is
\* invoked; the closure the event loop runs next is processed as any other.
C20_MalformedNumberNotMasked ==
    [][RanPropagateMessage =>
        LET key == call'.args[1]
            value == call'.args[2]
        IN  /\ (key \in {"temperature", "textr", "texauh", "tsupl", "tout", "overheating"}
                   /\ ~IntParses(value))
                 => /\ raised' = "ValueError"
                    /\ state' = state
                    /\ device_is_online' = device_is_online
                    /\ attr_is_on' = attr_is_on
                    /\ notified' = <<>>
            /\ (raised = "ValueError" /\ call.op = "_on_message._propagate"
                   /\ Matches(key, value) /\ ~DecodeRaises(key, value))
                 => /\ raised' = "none"
                    /\ state' = [state EXCEPT ![FieldOf(key)] = DecodedValue(key, value)]
                    /\ Len(notified') = Len(on_state_updated)]_vars

\* An extract temperature that is not a number has been processed after one
\* that was, on a client with observers: the closure raised and the field
\* holds the earlier reading.
C20_Witness ==
    /\ call = [op |-> "_on_message._propagate", args |-> <<"textr", "online">>]
    /\ raised = "ValueError"
    /\ notified = <<>>
    /\ state.temperature_extract = Some(1)
    /\ on_state_updated # <<>>

\* C21: in every state reached from a freshly constructed client by messages
\* and disconnect callbacks, is_online = true implies that the online latch
\* is set: the flag is never true while the latch is clear.
C21_OnlineFlagImpliesLatch ==
    state.is_online = TRUE => device_is_online

\* A status=online report, the second message delivered, has been processed
\* on a client with observers whose connection has been lost since: the flag
\* and the latch are both set.
C21_Witness ==
    /\ call = [op |-> "_on_message._propagate", args |-> <<"status", "online">>]
    /\ attr_is_on["is_online"] = Some(TRUE)
    /\ received = 2
    /\ ~connected
    /\ state.is_online = TRUE
    /\ device_is_online

\* C22: set_target_temperature, set_fan_mode and set_preset_mode never change
\* Device State or a latch; preset_mode, fan_mode and temperature_target
\* change only in a step that processes an inbound message, so a
\* set_preset_mode(m) that directly follows a set_preset_mode(m) publishes
\* the same messages again.
C22_CommandsLeaveState ==
    [][/\ call'.op \in {"set_target_temperature", "set_fan_mode", "set_preset_mode"}
            => /\ state' = state
               /\ device_is_online' = device_is_online
               /\ device_is_discovered' = device_is_discovered
       /\ (\/ state'.preset_mode # state.preset_mode
           \/ state'.fan_mode # state.fan_mode
           \/ state'.temperature_target # state.temperature_target)
            => call'.op = "_on_message._propagate"
       /\ (call.op = "set_preset_mode" /\ call'.op = "set_preset_mode"
              /\ call'.args = call.args)
            => published' = published]_vars

\* HOME has been asked for while the reported preset was AWAY: both messages
\* were published, and the state still says AWAY.
C22_Witness ==
    /\ call = [op |-> "set_preset_mode", args |-> <<HOME>>]
    /\ PublishedPairs = <<<<"units/001a2b000001/app/absent", "0">>,
                          <<"units/001a2b000001/app/party", "2">>>>
    /\ state.preset_mode = Some(AWAY)
    /\ device_is_discovered

\* C23: commands round-trip through the decoder: when the messages a command
\* published are echoed back in publish order as state messages with the same
\* key and payload, Device State has preset_mode = m after set_preset_mode(m),
\* fan_mode = s and preset_mode HOME after set_fan_mode(s), and
\* temperature_target = v after set_target_temperature(v), for every m, every
\* s and every v from 15 to 26.
C23_CommandsRoundTrip ==
    /\ call.op = "set_preset_mode" => EchoedState.preset_mode = <<call.args[1]>>
    /\ call.op = "set_fan_mode"
         => /\ EchoedState.fan_mode = <<call.args[1]>>
            /\ EchoedState.preset_mode = <<"home">>
    /\ (call.op = "set_target_temperature" /\ 15 <= call.args[1] /\ call.args[1] <= 26)
         => EchoedState.temperature_target = <<call.args[1]>>

\* The highest fan speed has been asked for while the reported preset was
\* BOOST: the three echoes leave the preset HOME and the fan speed HIGH.
C23_Witness ==
    /\ call = [op |-> "set_fan_mode", args |-> <<HIGH>>]
    /\ state.preset_mode = Some(BOOST)
    /\ Len(EchoClosures(published)) = 3
    /\ EchoedState.preset_mode = Some(HOME)
    /\ EchoedState.fan_mode = Some(HIGH)
    /\ state.fan_mode = None

====
